---- MODULE Spec2Model ----
(***************************************************************************)
(* Model of mount4o/compression-tests: the command-line tool (ccli.py) and *)
(* the interactive tool (compression_streamlit.py).  The program keeps no  *)
(* state between calls, so the state of the model is the observation of    *)
(* the last call: which operation ran (op), on which arguments (args), and *)
(* what it returned, raised and wrote (result).                            *)
(***************************************************************************)
EXTENDS Integers, Sequences, FiniteSets, TLC

VARIABLES op, args, result

vars == <<op, args, result>>

(***************************************************************************)
(* Program constants.                                                      *)
(***************************************************************************)
MaxCount == 255
ByteMax == 255
MaxEntropy == 8

(***************************************************************************)
(* Bounds of the model.                                                    *)
(***************************************************************************)
MaxLen == 4
MaxRuns == 2
MaxSize == 2
MaxGrowth == 1
MaxFile == 2

Byte == 0..ByteMax

Max(a, b) == IF a > b THEN a ELSE b

RangeOf(s) == {s[i] : i \in 1..Len(s)}

SeqsUpTo(S, n) == UNION {[1..k -> S] : k \in 0..n}

(***************************************************************************)
(* What a call gives back: the value it returns, or the exception it       *)
(* raises.                                                                 *)
(***************************************************************************)
Returned(v) == [exc |-> "none", value |-> v]

Raised(e) == [exc |-> e, value |-> <<>>]

(***************************************************************************)
(* compress_with_rle.  st is the state of the loop: previous_byte, count   *)
(* and the bytearray compressed; st.exc is the exception raised so far.    *)
(* emit is the pair of bytearray.append calls (append raises ValueError    *)
(* for a value outside range(256)), rle_step one iteration of the for      *)
(* loop on current_byte, rle_finish the two appends after the loop.        *)
(***************************************************************************)
emit(st) ==
    IF st.previous_byte \in Byte /\ st.count \in Byte
    THEN [st EXCEPT !.compressed = Append(Append(@, st.previous_byte), st.count)]
    ELSE [st EXCEPT !.exc = "ValueError"]

rle_step_nocap(st, current_byte) ==
    IF current_byte = st.previous_byte
    THEN [st EXCEPT !.count = st.count + 1]
    ELSE [emit(st) EXCEPT !.previous_byte = current_byte, !.count = 1]

rle_step_count0(st, current_byte) ==
    IF current_byte = st.previous_byte /\ st.count < MaxCount
    THEN [st EXCEPT !.count = st.count + 1]
    ELSE [emit(st) EXCEPT !.previous_byte = current_byte, !.count = 0]

rle_step_stale(st, current_byte) ==
    IF current_byte = st.previous_byte /\ st.count < MaxCount
    THEN [st EXCEPT !.count = st.count + 1]
    ELSE [emit(st) EXCEPT !.count = 1]

rle_step(st, current_byte) ==
    IF current_byte = st.previous_byte /\ st.count < MaxCount
    THEN [st EXCEPT !.count = st.count + 1]
    ELSE [emit(st) EXCEPT !.previous_byte = current_byte, !.count = 1]

rle_finish_nolast(st) ==
    IF st.exc # "none" THEN Raised(st.exc) ELSE Returned(st.compressed)

rle_finish(st) ==
    IF emit(st).exc # "none" THEN Raised(emit(st).exc)
    ELSE Returned(emit(st).compressed)

(* The iterations over data[lo..hi], in order, starting from st; an        *)
(* exception ends the loop.  The range is halved only to keep the          *)
(* evaluation shallow: the iterations still run left to right.             *)
RECURSIVE rle_loop(_, _, _, _)
rle_loop(st, data, lo, hi) ==
    IF lo > hi \/ st.exc # "none" THEN st
    ELSE IF lo = hi THEN rle_step(st, data[lo])
    ELSE LET mid == (lo + hi) \div 2
             left == rle_loop(st, data, lo, mid)
         IN IF left.exc # "none" THEN left
            ELSE rle_loop(left, data, mid + 1, hi)

compress_with_rle(data) ==
    IF data = <<>> THEN Returned(<<>>)
    ELSE rle_finish(rle_loop([previous_byte |-> data[1], count |-> 1,
                              compressed |-> <<>>, exc |-> "none"],
                             data, 2, Len(data)))

(***************************************************************************)
(* Input buffers for direct calls of the coder: every short buffer over a  *)
(* few byte values, and buffers made of a few long runs around the cap.    *)
(***************************************************************************)
SampleBytes == {0, 65, 255}

RandomSample == {0, 1, 255}

RunLens == {1, MaxCount, MaxCount + 45, 2 * MaxCount + 1}

RunSeqs ==
    {rs \in SeqsUpTo(SampleBytes \X RunLens, MaxRuns) :
        \A j \in 1..(Len(rs) - 1) : rs[j][1] # rs[j + 1][1]}

RECURSIVE RunStart(_, _)
RunStart(rs, j) == IF j = 1 THEN 0 ELSE RunStart(rs, j - 1) + rs[j - 1][2]

RunBuffer(rs) ==
    [k \in 1..RunStart(rs, Len(rs) + 1) |->
        LET j == CHOOSE j \in 1..Len(rs) :
                     RunStart(rs, j) < k /\ k <= RunStart(rs, j + 1)
        IN rs[j][1]]

RleInputs == SeqsUpTo(SampleBytes, MaxLen) \cup {RunBuffer(rs) : rs \in RunSeqs}

(***************************************************************************)
(* The codecs of the libraries (brotli, gzip, lz4, zlib, bz2, zstandard,   *)
(* lzma) and the JPEG re-encoding are outside the repository: the program  *)
(* only takes the length of what they return, so a call is a choice among  *)
(* buffers of every length up to a little more than the input's.  A        *)
(* library call that raises is not modelled.                               *)
(***************************************************************************)
Zeros(n) == [k \in 1..n |-> 0]

library_compress(data) == {Zeros(n) : n \in 0..(Len(data) + MaxGrowth)}

compress_with_brotli(data) == library_compress(data)
compress_with_gzip(data) == library_compress(data)
compress_with_lz4(data) == library_compress(data)
compress_with_deflate(data) == library_compress(data)
compress_with_bzip2(data) == library_compress(data)
compress_with_zstd(data) == library_compress(data)
compress_with_lzma(data) == library_compress(data)
compress_image_lossless(image) == library_compress(image)

(***************************************************************************)
(* str.encode('utf-8') on a text given as its code points (below 2048).    *)
(***************************************************************************)
encode_char(cp) ==
    IF cp < 128 THEN <<cp>>
    ELSE <<192 + (cp \div 64), 128 + (cp % 64)>>

RECURSIVE encode_utf8(_)
encode_utf8(text) ==
    IF text = <<>> THEN <<>>
    ELSE encode_char(Head(text)) \o encode_utf8(Tail(text))

(***************************************************************************)
(* calculate_entropy.  Counter(data) maps each byte value of data to its   *)
(* number of occurrences.  The result is kept as the terms of the sum:     *)
(* the entry <<count, total_bytes>> of a byte value stands for             *)
(* -p_i * log2(p_i) with p_i = count / total_bytes; log2 is not            *)
(* evaluated.  The empty buffer returns 0.0 before any count or division:  *)
(* no terms.                                                               *)
(***************************************************************************)
Counter(data) ==
    [b \in RangeOf(data) |-> Cardinality({i \in 1..Len(data) : data[i] = b})]

calculate_entropy(data) ==
    IF data = <<>> THEN <<>>
    ELSE LET byte_counts == Counter(data)
             total_bytes == Len(data)
         IN [b \in DOMAIN byte_counts |-> <<byte_counts[b], total_bytes>>]

(***************************************************************************)
(* generate_random_payload_with_entropy.  target_entropy is given in half  *)
(* bits (t2 = 2 * target_entropy), so that int(2 ** target_entropy) is the *)
(* integer square root of 2 ^ t2.  The random module is a choice: randint  *)
(* and getrandbits(8) among the sampled byte values, choices among the     *)
(* sampled symbols.  An outcome also counts the random values drawn.       *)
(***************************************************************************)
RECURSIVE Pow2(_)
Pow2(n) == IF n <= 0 THEN 1 ELSE 2 * Pow2(n - 1)

ISqrt(n) == CHOOSE k \in 0..n : k * k <= n /\ (k + 1) * (k + 1) > n

Repeat(b, size) == [k \in 1..Max(size, 0) |-> b]

randint(lo, hi) == {b \in RandomSample : lo <= b /\ b <= hi}

getrandbits8 == RandomSample

choices(symbols, k) == [1..Max(k, 0) -> symbols \cap RandomSample]

Drawn(v, n) == [exc |-> "none", value |-> v, draws |-> n]

generate_unchecked(size, t2) ==
    IF t2 = 0
    THEN {Drawn(Repeat(b, size), 1) : b \in randint(0, ByteMax)}
    ELSE IF t2 = 2 * MaxEntropy
    THEN {Drawn(v, Max(size, 0)) : v \in [1..Max(size, 0) -> getrandbits8]}
    ELSE LET num_symbols == ISqrt(Pow2(t2))
             symbols == 0..(num_symbols - 1)
         IN {Drawn(v, Max(size, 0)) : v \in choices(symbols, size)}

generate_each_byte(size, t2) ==
    IF t2 < 0 \/ t2 > 2 * MaxEntropy
    THEN {[exc |-> "ValueError", value |-> <<>>, draws |-> 0]}
    ELSE IF t2 = 0
    THEN {Drawn(v, Max(size, 0)) : v \in [1..Max(size, 0) -> randint(0, ByteMax)]}
    ELSE generate_unchecked(size, t2)

generate_random_payload_with_entropy(size, t2) ==
    IF t2 < 0 \/ t2 > 2 * MaxEntropy
    THEN {[exc |-> "ValueError", value |-> <<>>, draws |-> 0]}
    ELSE IF t2 = 0
    THEN {Drawn(Repeat(b, size), 1) : b \in randint(0, ByteMax)}
    ELSE IF t2 = 2 * MaxEntropy
    THEN {Drawn(v, Max(size, 0)) : v \in [1..Max(size, 0) -> getrandbits8]}
    ELSE LET num_symbols == ISqrt(Pow2(t2))
             symbols == 0..(num_symbols - 1)
         IN {Drawn(v, Max(size, 0)) : v \in choices(symbols, size)}

(***************************************************************************)
(* simulate_transmission: the lines written and the exception raised.  A   *)
(* line is its text and, for a number, the fraction n / d it shows: the    *)
(* reduction is (original_size - compressed_size) * 100 / original_size.   *)
(* The division raises ZeroDivisionError when original_size is 0.          *)
(***************************************************************************)
Line(text, n, d) == [text |-> text, n |-> n, d |-> d]

Written(lines, e) == [lines |-> lines, exc |-> e]

simulate_transmission_le(payload, compressed_payload) ==
    LET original_size == Len(payload)
        compressed_size == Len(compressed_payload)
        sizes == <<Line("Original size", original_size, 1),
                   Line("Compressed size", compressed_size, 1)>>
    IN  IF compressed_size <= original_size
        THEN IF original_size = 0
             THEN Written(sizes, "ZeroDivisionError")
             ELSE Written(Append(sizes,
                      Line("Compression reduced the size by",
                           (original_size - compressed_size) * 100, original_size)),
                      "none")
        ELSE Written(Append(sizes, Line("Compression did not reduce the size.", 0, 1)),
                     "none")

simulate_transmission_swapped(payload, compressed_payload) ==
    LET original_size == Len(payload)
        compressed_size == Len(compressed_payload)
        sizes == <<Line("Original size", original_size, 1),
                   Line("Compressed size", compressed_size, 1)>>
    IN  IF compressed_size < original_size
        THEN IF compressed_size = 0
             THEN Written(sizes, "ZeroDivisionError")
             ELSE Written(Append(sizes,
                      Line("Compression reduced the size by",
                           (original_size - compressed_size) * 100, compressed_size)),
                      "none")
        ELSE Written(Append(sizes, Line("Compression did not reduce the size.", 0, 1)),
                     "none")

simulate_transmission(payload, compressed_payload) ==
    LET original_size == Len(payload)
        compressed_size == Len(compressed_payload)
        sizes == <<Line("Original size", original_size, 1),
                   Line("Compressed size", compressed_size, 1)>>
    IN  IF compressed_size < original_size
        THEN IF original_size = 0
             THEN Written(sizes, "ZeroDivisionError")
             ELSE Written(Append(sizes,
                      Line("Compression reduced the size by",
                           (original_size - compressed_size) * 100, original_size)),
                      "none")
        ELSE Written(Append(sizes, Line("Compression did not reduce the size.", 0, 1)),
                     "none")

(***************************************************************************)
(* What a run of main gives: the exception that ended it ("none" for a     *)
(* normal return, "SystemExit" for parser.error), the lines written, the   *)
(* functions called in order, the entropy figure written (in a sequence    *)
(* of length 0 or 1; the line "Entropy of the original payload" shows it)  *)
(* and the number of random values drawn.                                  *)
(***************************************************************************)
Ran(e, lines, calls, entropy, n) ==
    [exc |-> e, lines |-> lines, calls |-> calls, entropy |-> entropy, draws |-> n]

EntropyLine == Line("Entropy of the original payload", 0, 1)

(* A call of simulate_transmission that ends the run. *)
Transmit(payload, compressed_payload, lines, calls, entropy, n) ==
    LET w == simulate_transmission(payload, compressed_payload)
    IN  Ran(w.exc, lines \o w.lines, Append(calls, "simulate_transmission"), entropy, n)

(***************************************************************************)
(* ccli.py main.  a holds the command line and what the paths name:        *)
(* type, has_payload and text (the positional argument), isfile and        *)
(* content (the file at that path), has_size and size, has_entropy and t2  *)
(* (--entropy in half bits), compression ("None" when not given).          *)
(***************************************************************************)
CliChoices == {"brotli", "gzip", "lz4", "deflate"}

cli_compress(name, payload) ==
    CASE name = "brotli" -> compress_with_brotli(payload)
      [] name = "gzip" -> compress_with_gzip(payload)
      [] name = "lz4" -> compress_with_lz4(payload)
      [] name = "deflate" -> compress_with_deflate(payload)

(* Lines 139-154: the entropy, the if/elif chain and the comparison.  With *)
(* no --compression no branch binds compressed_payload, and reading it     *)
(* raises UnboundLocalError.                                               *)
cli_benchmark(a, payload, calls, n) ==
    LET entropy == calculate_entropy(payload)
        called == Append(calls, "calculate_entropy")
    IN  IF a.compression \notin CliChoices
        THEN {Ran("UnboundLocalError", <<EntropyLine>>, called, <<entropy>>, n)}
        ELSE {Transmit(payload, c, <<EntropyLine>>,
                       Append(called, "compress_with_" \o a.compression),
                       <<entropy>>, n) : c \in cli_compress(a.compression, payload)}

cli_main(a) ==
    IF a.compression \notin CliChoices \cup {"None"}
    THEN {Ran("SystemExit", <<>>, <<>>, <<>>, 0)}
    ELSE IF a.type \in {"string", "file", "image"} /\ ~a.has_payload
    THEN {Ran("SystemExit", <<>>, <<>>, <<>>, 0)}
    ELSE IF a.type = "random" /\ ~a.has_size
    THEN {Ran("SystemExit", <<>>, <<>>, <<>>, 0)}
    ELSE IF a.type = "random" /\ ~a.has_entropy
    THEN {Ran("SystemExit", <<>>, <<>>, <<>>, 0)}
    ELSE IF a.type = "string"
    THEN cli_benchmark(a, encode_utf8(a.text), <<>>, 0)
    ELSE IF a.type = "file"
    THEN IF ~a.isfile
         THEN {Ran("none", <<Line("Error: File does not exist.", 0, 1)>>, <<>>, <<>>, 0)}
         ELSE cli_benchmark(a, a.content, <<"read_file">>, 0)
    ELSE IF a.type = "image"
    THEN IF ~a.isfile
         THEN {Ran("none", <<Line("Error: Image file does not exist.", 0, 1)>>,
                   <<>>, <<>>, 0)}
         ELSE {Transmit(a.content, c, <<>>, <<"compress_image_lossless", "read_file">>,
                        <<>>, 0) : c \in compress_image_lossless(a.content)}
    ELSE UNION {IF g.exc # "none"
                THEN {Ran(g.exc, <<>>, <<"generate_random_payload_with_entropy">>,
                          <<>>, g.draws)}
                ELSE cli_benchmark(a, g.value, <<"generate_random_payload_with_entropy">>,
                                   g.draws)
                : g \in generate_random_payload_with_entropy(a.size, a.t2)}

(***************************************************************************)
(* compression_streamlit.py main, one run of the script.  w holds the      *)
(* widgets: payload_type, text (the text area), has_file, content and raw  *)
(* (the upload, and whether its type is one of the RAW types), size and    *)
(* t2 (the sliders), compression_method (the select box).                  *)
(***************************************************************************)
UiMethods == {"brotli", "gzip", "lz4", "deflate", "rle", "bzip2", "zstd", "lzma"}

(* The chosen compressor: the buffers it may return, or its exception. *)
ui_compress(name, payload) ==
    CASE name = "brotli" -> {Returned(c) : c \in compress_with_brotli(payload)}
      [] name = "gzip" -> {Returned(c) : c \in compress_with_gzip(payload)}
      [] name = "lz4" -> {Returned(c) : c \in compress_with_lz4(payload)}
      [] name = "deflate" -> {Returned(c) : c \in compress_with_deflate(payload)}
      [] name = "rle" -> {compress_with_rle(payload)}
      [] name = "bzip2" -> {Returned(c) : c \in compress_with_bzip2(payload)}
      [] name = "zstd" -> {Returned(c) : c \in compress_with_zstd(payload)}
      [] name = "lzma" -> {Returned(c) : c \in compress_with_lzma(payload)}

(* Lines 154-180; has_payload is false when payload is None. *)
ui_benchmark(w, has_payload, payload, calls, n) ==
    IF ~has_payload \/ payload = <<>>
    THEN {Ran("none", <<>>, calls, <<>>, n)}
    ELSE LET entropy == calculate_entropy(payload)
             called == calls \o <<"calculate_entropy",
                                  "compress_with_" \o w.compression_method>>
         IN {IF r.exc # "none"
             THEN Ran(r.exc, <<EntropyLine>>, called, <<entropy>>, n)
             ELSE Transmit(payload, r.value, <<EntropyLine>>, called, <<entropy>>, n)
             : r \in ui_compress(w.compression_method, payload)}

ui_main(w) ==
    IF w.payload_type = "String"
    THEN ui_benchmark(w, w.text # <<>>, encode_utf8(w.text), <<>>, 0)
    ELSE IF w.payload_type = "File"
    THEN ui_benchmark(w, w.has_file, w.content,
                      IF w.has_file THEN <<"read_file">> ELSE <<>>, 0)
    ELSE IF w.payload_type = "Image"
    THEN IF ~w.has_file
         THEN ui_benchmark(w, FALSE, <<>>, <<>>, 0)
         ELSE IF w.raw
         THEN {Transmit(w.content, w.content,
                        <<Line("RAW image detected, processing as binary data.", 0, 1)>>,
                        <<"read_file">>, <<>>, 0)}
         ELSE {Transmit(w.content, c,
                        <<Line("Lossless compression applied to image.", 0, 1)>>,
                        <<"read_file", "compress_image_lossless">>, <<>>, 0)
               : c \in compress_image_lossless(w.content)}
    ELSE UNION {IF g.exc # "none"
                THEN {Ran(g.exc, <<>>, <<"generate_random_payload_with_entropy">>,
                          <<>>, g.draws)}
                ELSE ui_benchmark(w, TRUE, g.value,
                                  <<"generate_random_payload_with_entropy">>, g.draws)
                : g \in generate_random_payload_with_entropy(w.size, w.t2)}

(***************************************************************************)
(* The inputs of the runs.                                                 *)
(***************************************************************************)
TextChars == {65, 66, 233}

Texts == SeqsUpTo(TextChars, MaxLen)

Contents == SeqsUpTo(SampleBytes, MaxFile)

CliSizes == (-1)..MaxSize

CliEntropies == {-1, 0, 1, 3, 4, 16, 17}

CliCompressions == CliChoices \cup {"None", "rle", "bogus"}

UiSizes == 1..MaxSize

UiEntropies == {0, 1, 3, 4, 16}

CliArgs(type, has_payload, text, isfile, content, has_size, size, has_entropy, t2, compression) ==
    [type |-> type, has_payload |-> has_payload, text |-> text, isfile |-> isfile,
     content |-> content, has_size |-> has_size, size |-> size,
     has_entropy |-> has_entropy, t2 |-> t2, compression |-> compression]

CliCommandLines ==
    UNION {
        {CliArgs("string", FALSE, <<>>, FALSE, <<>>, FALSE, 0, FALSE, 0, c)}
        \cup {CliArgs("string", TRUE, t, FALSE, <<>>, FALSE, 0, FALSE, 0, c) : t \in Texts}
        \cup {CliArgs(ty, FALSE, <<>>, FALSE, <<>>, FALSE, 0, FALSE, 0, c)
              : ty \in {"file", "image"}}
        \cup {CliArgs(ty, TRUE, <<>>, FALSE, <<>>, FALSE, 0, FALSE, 0, c)
              : ty \in {"file", "image"}}
        \cup {CliArgs(x[1], TRUE, <<>>, TRUE, x[2], FALSE, 0, FALSE, 0, c)
              : x \in {"file", "image"} \X Contents}
        \cup {CliArgs("random", FALSE, <<>>, FALSE, <<>>, FALSE, 0, TRUE, t2, c)
              : t2 \in CliEntropies}
        \cup {CliArgs("random", FALSE, <<>>, FALSE, <<>>, TRUE, n, FALSE, 0, c)
              : n \in CliSizes}
        \cup {CliArgs("random", FALSE, <<>>, FALSE, <<>>, TRUE, x[1], TRUE, x[2], c)
              : x \in CliSizes \X CliEntropies}
        : c \in CliCompressions}

UiWidgets(payload_type, text, has_file, content, raw, size, t2, compression_method) ==
    [payload_type |-> payload_type, text |-> text, has_file |-> has_file,
     content |-> content, raw |-> raw, size |-> size, t2 |-> t2,
     compression_method |-> compression_method]

UiSettings ==
    UNION {
        {UiWidgets("String", t, FALSE, <<>>, FALSE, 1, 0, m) : t \in Texts}
        \cup {UiWidgets(ty, <<>>, FALSE, <<>>, FALSE, 1, 0, m) : ty \in {"File", "Image"}}
        \cup {UiWidgets("File", <<>>, TRUE, c, FALSE, 1, 0, m) : c \in Contents}
        \cup {UiWidgets("Image", <<>>, TRUE, x[1], x[2], 1, 0, m)
              : x \in Contents \X BOOLEAN}
        \cup {UiWidgets("Random", <<>>, FALSE, <<>>, FALSE, x[1], x[2], m)
              : x \in UiSizes \X UiEntropies}
        : m \in UiMethods}

(***************************************************************************)
(* The state machine: no call in progress (op = "none"), or the last call  *)
(* with its arguments and what it gave.                                    *)
(***************************************************************************)
Init ==
    /\ op = "none"
    /\ args = <<>>
    /\ result = <<>>

CallCompressWithRle ==
    /\ op = "none"
    /\ \E data \in RleInputs :
        /\ op' = "compress_with_rle"
        /\ args' = [data |-> data]
        /\ result' = compress_with_rle(data)

CallCalculateEntropy ==
    /\ op = "none"
    /\ \E data \in SeqsUpTo(SampleBytes, MaxLen) :
        /\ op' = "calculate_entropy"
        /\ args' = [data |-> data]
        /\ result' = Returned(calculate_entropy(data))

CallGenerate ==
    /\ op = "none"
    /\ \E size \in CliSizes, t2 \in CliEntropies :
        /\ op' = "generate_random_payload_with_entropy"
        /\ args' = [size |-> size, t2 |-> t2]
        /\ result' \in generate_random_payload_with_entropy(size, t2)

CallSimulateTransmission ==
    /\ op = "none"
    /\ \E o \in 0..MaxLen, c \in 0..(MaxLen + MaxGrowth) :
        /\ op' = "simulate_transmission"
        /\ args' = [payload |-> Zeros(o), compressed_payload |-> Zeros(c)]
        /\ result' = simulate_transmission(Zeros(o), Zeros(c))

RunCli ==
    /\ op = "none"
    /\ \E a \in CliCommandLines :
        /\ op' = "ccli.main"
        /\ args' = a
        /\ result' \in cli_main(a)

RunUi ==
    /\ op = "none"
    /\ \E w \in UiSettings :
        /\ op' = "streamlit.main"
        /\ args' = w
        /\ result' \in ui_main(w)

(* The call is over; the program keeps nothing of it. *)
Return ==
    /\ op # "none"
    /\ op' = "none"
    /\ args' = <<>>
    /\ result' = <<>>

Next ==
    \/ CallCompressWithRle
    \/ CallCalculateEntropy
    \/ CallGenerate
    \/ CallSimulateTransmission
    \/ RunCli
    \/ RunUi
    \/ Return

Spec == Init /\ [][Next]_vars

(***************************************************************************)
(* Properties.  Helpers to read what a call gave.                          *)
(***************************************************************************)
RleDone == op = "compress_with_rle"

(* The (value, count) records of an output made of whole pairs. *)
Records(out) ==
    [j \in 1..(Len(out) \div 2) |-> [value |-> out[2 * j - 1], count |-> out[2 * j]]]

(* The number of input bytes the records before record j stand for. *)
RECURSIVE Covered(_, _)
Covered(recs, j) == IF j <= 1 THEN 0 ELSE Covered(recs, j - 1) + recs[j - 1].count

(* Each record, in order, as count copies of value. *)
RECURSIVE Expand(_, _)
Expand(recs, j) ==
    IF j = 0 THEN <<>>
    ELSE Expand(recs, j - 1) \o [k \in 1..recs[j].count |-> recs[j].value]

HasLine(lines, text) == \E i \in 1..Len(lines) : lines[i].text = text

LineOf(lines, text) == lines[CHOOSE i \in 1..Len(lines) : lines[i].text = text]

Called(calls, prefix) ==
    \E i \in 1..Len(calls) :
        /\ Len(calls[i]) >= Len(prefix)
        /\ SubSeq(calls[i], 1, Len(prefix)) = prefix

(* C1: every record of compress_with_rle has a count in 1..255 and never   *)
(* raises on the count byte; the records cover the input in order, each    *)
(* standing for count equal bytes of its value, and of two consecutive     *)
(* records of the same value the first has count 255: a maximal run of n   *)
(* bytes is emitted as records of 255, ..., 255 and a last one, summing to *)
(* n.                                                                      *)
C1_RunsSplitAt255 ==
    RleDone =>
        /\ result.exc = "none"
        /\ Len(result.value) % 2 = 0
        /\ LET recs == Records(result.value)
               n == Len(recs)
           IN  /\ \A j \in 1..n : recs[j].count \in 1..MaxCount
               /\ Covered(recs, n + 1) = Len(args.data)
               /\ \A j \in 1..n :
                      \A k \in (Covered(recs, j) + 1)..Covered(recs, j + 1) :
                          args.data[k] = recs[j].value
               /\ \A j \in 1..(n - 1) :
                      recs[j].value = recs[j + 1].value => recs[j].count = MaxCount

C1_Witness ==
    /\ RleDone
    /\ result.exc = "none"
    /\ \E j \in 1..(Len(result.value) \div 2 - 1) :
          /\ Records(result.value)[j].count = 255
          /\ Records(result.value)[j + 1].count = 45
          /\ Records(result.value)[j].value = Records(result.value)[j + 1].value

(* C6: the output of compress_with_rle has even length, is empty for the   *)
(* empty input and has at least 2 bytes for a non-empty input.             *)
C6_WholeRecords ==
    RleDone =>
        /\ result.exc = "none"
        /\ Len(result.value) % 2 = 0
        /\ (Len(args.data) = 0 => Len(result.value) = 0)
        /\ (Len(args.data) > 0 => Len(result.value) >= 2)

C6_Witness ==
    /\ RleDone
    /\ Len(args.data) = 1
    /\ result.exc = "none"
    /\ Len(result.value) = 2

(* C7: for a non-empty input without two equal adjacent bytes, the output  *)
(* is twice as long as the input: each input byte followed by the count 1. *)
NoAdjacentEqual(data) == \A i \in 1..(Len(data) - 1) : data[i] # data[i + 1]

C7_DoublesVariedInput ==
    (RleDone /\ Len(args.data) > 0 /\ NoAdjacentEqual(args.data)) =>
        /\ result.exc = "none"
        /\ Len(result.value) = 2 * Len(args.data)
        /\ \A i \in 1..Len(args.data) :
              /\ result.value[2 * i - 1] = args.data[i]
              /\ result.value[2 * i] = 1

C7_Witness ==
    /\ RleDone
    /\ Len(args.data) >= 3
    /\ NoAdjacentEqual(args.data)
    /\ result.exc = "none"
    /\ Len(result.value) = 2 * Len(args.data)

(* C10: compress_with_rle is lossless: expanding each record in order into *)
(* count copies of value gives back the input, runs split at 255 included. *)
C10_RleLossless ==
    RleDone =>
        /\ result.exc = "none"
        /\ Len(result.value) % 2 = 0
        /\ Expand(Records(result.value), Len(result.value) \div 2) = args.data

C10_Witness ==
    /\ RleDone
    /\ Len(args.data) > 2 * MaxCount
    /\ Cardinality(RangeOf(args.data)) >= 2
    /\ result.exc = "none"
    /\ Len(result.value) >= 8

(***************************************************************************)
(* The runs of main that are benchmark runs: the payload was obtained (a   *)
(* text, an existing file, or --size and --entropy for a random payload)   *)
(* and the run is not the image comparison.                                *)
(***************************************************************************)
CliRun == op = "ccli.main"

UiRun == op = "streamlit.main"

CliPayloadGiven ==
    \/ args.type = "string" /\ args.has_payload
    \/ args.type = "file" /\ args.has_payload /\ args.isfile
    \/ args.type = "random" /\ args.has_size /\ args.has_entropy

InRange(t2) == 0 <= t2 /\ t2 <= 2 * MaxEntropy

(* The payload of a benchmark run of ccli.py, known from the command line  *)
(* to be empty.                                                            *)
CliEmptyPayload ==
    \/ args.type = "string" /\ args.has_payload /\ args.text = <<>>
    \/ args.type = "file" /\ args.has_payload /\ args.isfile /\ args.content = <<>>
    \/ /\ args.type = "random" /\ args.has_size /\ args.has_entropy
       /\ args.size <= 0 /\ InRange(args.t2)

UiEmptyPayload ==
    \/ args.payload_type = "String" /\ args.text = <<>>
    \/ args.payload_type = "File" /\ args.has_file /\ args.content = <<>>

NoReport(r) ==
    /\ ~HasLine(r.lines, "Original size")
    /\ ~HasLine(r.lines, "Compressed size")
    /\ ~HasLine(r.lines, "Compression reduced the size by")
    /\ ~HasLine(r.lines, "Compression did not reduce the size.")

NoEntropy(r) ==
    /\ r.entropy = <<>>
    /\ ~HasLine(r.lines, "Entropy of the original payload")
    /\ ~Called(r.calls, "calculate_entropy")

(* C2: a benchmark run whose codec name is not a registered codec (no      *)
(* codec name given included) fails before the entropy is estimated or a   *)
(* compressor is called: no entropy figure and no size comparison.         *)
C2_UnknownCodecBeforeWork ==
    (CliRun /\ CliPayloadGiven /\ args.compression \notin CliChoices) =>
        /\ result.exc # "none"
        /\ NoEntropy(result)
        /\ ~Called(result.calls, "compress_with_")
        /\ NoReport(result)

(* C3 as claimed: a benchmark run on an empty payload with a registered    *)
(* codec completes with original_size = 0, compressed_size = 0 and the     *)
(* reduction not applicable, and raises no division error.                 *)
C3_EmptyPayloadZeroSizes ==
    /\ (CliRun /\ CliEmptyPayload /\ args.compression \in CliChoices) =>
          /\ result.exc = "none"
          /\ HasLine(result.lines, "Original size")
          /\ LineOf(result.lines, "Original size").n = 0
          /\ HasLine(result.lines, "Compressed size")
          /\ LineOf(result.lines, "Compressed size").n = 0
          /\ ~HasLine(result.lines, "Compression reduced the size by")
    /\ (UiRun /\ UiEmptyPayload) =>
          /\ result.exc = "none"
          /\ HasLine(result.lines, "Original size")
          /\ LineOf(result.lines, "Original size").n = 0
          /\ HasLine(result.lines, "Compressed size")
          /\ LineOf(result.lines, "Compressed size").n = 0
          /\ ~HasLine(result.lines, "Compression reduced the size by")

(* C3 as amended: a benchmark run on an empty payload never raises a       *)
(* division error.  ccli.py, with any of its codecs, completes and writes  *)
(* the entropy of no terms (0.0), original size 0, the length of whatever  *)
(* the codec returned (not always 0) and "did not reduce" in place of a    *)
(* percentage.  The streamlit script writes no report for an empty         *)
(* payload: nothing is estimated or compressed.                            *)
C3_EmptyPayloadNoDivision ==
    /\ (CliRun /\ CliEmptyPayload /\ args.compression \in CliChoices) =>
          /\ result.exc = "none"
          /\ result.entropy = << <<>> >>
          /\ Len(result.lines) = 4
          /\ result.lines[1] = EntropyLine
          /\ result.lines[2] = Line("Original size", 0, 1)
          /\ result.lines[3].text = "Compressed size"
          /\ result.lines[3].n >= 0
          /\ result.lines[4] = Line("Compression did not reduce the size.", 0, 1)
    /\ (UiRun /\ UiEmptyPayload) =>
          /\ result.exc = "none"
          /\ result.lines = <<>>
          /\ NoEntropy(result)
          /\ ~Called(result.calls, "compress_with_")

C3_Witness ==
    /\ CliRun
    /\ CliEmptyPayload
    /\ args.compression \in CliChoices
    /\ result.exc = "none"
    /\ HasLine(result.lines, "Compression did not reduce the size.")
    /\ LineOf(result.lines, "Original size").n = 0

SimulateDone == op = "simulate_transmission"

AAAA == <<65, 65, 65, 65>>

RleOfAAAA ==
    UiRun /\ args.payload_type = "String" /\ args.text = AAAA
          /\ args.compression_method = "rle"

(* C4 as claimed: whenever original_size > 0 the report carries            *)
(* reduction_percent = (original_size - compressed_size) / original_size   *)
(* * 100, negative when the data grew and 0 when the sizes are equal.      *)
C4_ReductionAlwaysReported ==
    (SimulateDone /\ Len(args.payload) > 0) =>
        /\ result.exc = "none"
        /\ HasLine(result.lines, "Compression reduced the size by")
        /\ LET r == LineOf(result.lines, "Compression reduced the size by")
           IN  r.n * Len(args.payload) =
                   (Len(args.payload) - Len(args.compressed_payload)) * 100 * r.d

(* C4 as amended: with original_size > 0, when compressed_size is smaller  *)
(* the report carries (original_size - compressed_size) / original_size *  *)
(* 100, a positive value; when compressed_size is equal or larger it       *)
(* carries no percentage but the line "Compression did not reduce the      *)
(* size.".  The text "AAAA" with the run-length coder gives original size  *)
(* 4, compressed size 2 and a reduction of 50.                             *)
C4_ReductionWhenSmaller ==
    /\ (SimulateDone /\ Len(args.payload) > 0) =>
          LET o == Len(args.payload)
              c == Len(args.compressed_payload)
          IN  /\ result.exc = "none"
              /\ Len(result.lines) = 3
              /\ result.lines[1] = Line("Original size", o, 1)
              /\ result.lines[2] = Line("Compressed size", c, 1)
              /\ c < o =>
                    /\ result.lines[3].text = "Compression reduced the size by"
                    /\ result.lines[3].d > 0
                    /\ result.lines[3].n * o = (o - c) * 100 * result.lines[3].d
                    /\ result.lines[3].n > 0
              /\ c >= o =>
                    result.lines[3] = Line("Compression did not reduce the size.", 0, 1)
    /\ RleOfAAAA =>
          /\ result.exc = "none"
          /\ Len(result.lines) = 4
          /\ result.lines[2] = Line("Original size", 4, 1)
          /\ result.lines[3] = Line("Compressed size", 2, 1)
          /\ result.lines[4].text = "Compression reduced the size by"
          /\ result.lines[4].n = 50 * result.lines[4].d

C4_Witness ==
    /\ RleOfAAAA
    /\ result.exc = "none"
    /\ HasLine(result.lines, "Compression reduced the size by")

GenerateDone == op = "generate_random_payload_with_entropy"

(* C5 as claimed: for every size >= 0, a target entropy of 0 gives a       *)
(* buffer of length size with exactly one distinct byte value.             *)
C5_OneValueEverySize ==
    (GenerateDone /\ args.size >= 0 /\ args.t2 = 0) =>
        /\ result.exc = "none"
        /\ Len(result.value) = args.size
        /\ Cardinality(RangeOf(result.value)) = 1

(* C5 as amended: for every size >= 0, a target entropy of 0 gives a       *)
(* buffer of length size; it holds exactly one distinct byte value when    *)
(* size >= 1 and is the empty buffer, with no byte value, when size = 0.   *)
C5_OneValueWhenNonEmpty ==
    (GenerateDone /\ args.size >= 0 /\ args.t2 = 0) =>
        /\ result.exc = "none"
        /\ Len(result.value) = args.size
        /\ (args.size >= 1 => Cardinality(RangeOf(result.value)) = 1)
        /\ (args.size = 0 => result.value = <<>>)

C5_Witness ==
    /\ GenerateDone
    /\ args.size >= 2
    /\ args.t2 = 0
    /\ result.exc = "none"
    /\ Len(result.value) = args.size

(* C8: a target entropy below 0 or above 8 makes                           *)
(* generate_random_payload_with_entropy raise ValueError for every size,   *)
(* with no random value drawn and no buffer returned; in ccli.py the run   *)
(* ends there, before the entropy is estimated or a compressor is called.  *)
C8_EntropyOutOfRange ==
    /\ (GenerateDone /\ ~InRange(args.t2)) =>
          /\ result.exc = "ValueError"
          /\ result.value = <<>>
          /\ result.draws = 0
    /\ (CliRun /\ args.type = "random" /\ CliPayloadGiven
               /\ args.compression \in CliChoices \cup {"None"}
               /\ ~InRange(args.t2)) =>
          /\ result.exc = "ValueError"
          /\ result.draws = 0
          /\ result.lines = <<>>
          /\ NoEntropy(result)
          /\ ~Called(result.calls, "compress_with_")
          /\ ~Called(result.calls, "simulate_transmission")

C8_Witness ==
    /\ CliRun
    /\ args.type = "random"
    /\ CliPayloadGiven
    /\ args.compression \in CliChoices
    /\ args.t2 > 2 * MaxEntropy
    /\ args.size > 0
    /\ result.exc = "ValueError"

====
